---- MODULE Spec2Model ----
(***************************************************************************)
(* Model of src/statements.rs: splitting a SQL script into statements.     *)
(* A text is a sequence of characters; a character is a one-character      *)
(* string.  StatementGroup::try_from is modelled step by step (comment     *)
(* filter, one Parser::accept per character, trim and filter, the keyword  *)
(* check) and, from the same operators, as the function TryFrom.           *)
(***************************************************************************)
EXTENDS Integers, Sequences, FiniteSets, TLC

VARIABLES input, without_comments, pos, parser, statements, k, result, pc,
          previous

vars == <<input, without_comments, pos, parser, statements, k, result, pc,
          previous>>

(* ------------------------------ bounds --------------------------------- *)

MaxLen == 5

MaxPieces == 3

MaxReuseLen == 2

(* ----------------------------- characters ------------------------------ *)

SQ == "'"

DQ == "\""

SEMI == ";"

NL == "\n"

CR == "\r"

WhiteSpace == {" ", "\n", "\t", "\r"}

UpperLetters == <<"A","B","C","D","E","F","G","H","I","J","K","L","M",
                  "N","O","P","Q","R","S","T","U","V","W","X","Y","Z">>

LowerLetters == <<"a","b","c","d","e","f","g","h","i","j","k","l","m",
                  "n","o","p","q","r","s","t","u","v","w","x","y","z">>

CharToLower(c) ==
    IF \E i \in 1..Len(UpperLetters) : UpperLetters[i] = c
    THEN LowerLetters[CHOOSE i \in 1..Len(UpperLetters) : UpperLetters[i] = c]
    ELSE c

CharToUpper(c) ==
    IF \E i \in 1..Len(LowerLetters) : LowerLetters[i] = c
    THEN UpperLetters[CHOOSE i \in 1..Len(LowerLetters) : LowerLetters[i] = c]
    ELSE c

to_lowercase(s) == [i \in 1..Len(s) |-> CharToLower(s[i])]

to_uppercase(s) == [i \in 1..Len(s) |-> CharToUpper(s[i])]

(* ------------------------- string primitives --------------------------- *)

take(s, n) == IF Len(s) <= n THEN s ELSE SubSeq(s, 1, n)

starts_with(s, prefix) ==
    /\ Len(prefix) <= Len(s)
    /\ SubSeq(s, 1, Len(prefix)) = prefix

RECURSIVE trim_start(_)
trim_start(s) ==
    IF s # <<>> /\ Head(s) \in WhiteSpace THEN trim_start(Tail(s)) ELSE s

RECURSIVE trim_end(_)
trim_end(s) ==
    IF s # <<>> /\ s[Len(s)] \in WhiteSpace
    THEN trim_end(SubSeq(s, 1, Len(s) - 1))
    ELSE s

TrimStartOnly(s) == trim_start(s)

trim(s) == trim_end(trim_start(s))

(* str::lines: the text is cut after every "\n"; the "\n" and one "\r"     *)
(* before it are removed from each piece; no piece follows a final "\n".   *)
RECURSIVE split_inclusive(_, _)
split_inclusive(s, cur) ==
    IF s = <<>> THEN (IF cur = <<>> THEN <<>> ELSE <<cur>>)
    ELSE IF Head(s) = NL THEN <<Append(cur, NL)>> \o split_inclusive(Tail(s), <<>>)
    ELSE split_inclusive(Tail(s), Append(cur, Head(s)))

strip_line_ending(l) ==
    IF l # <<>> /\ l[Len(l)] = NL
    THEN LET l1 == SubSeq(l, 1, Len(l) - 1)
         IN  IF l1 # <<>> /\ l1[Len(l1)] = CR
             THEN SubSeq(l1, 1, Len(l1) - 1)
             ELSE l1
    ELSE l

lines(s) ==
    LET parts == split_inclusive(s, <<>>)
    IN  [i \in 1..Len(parts) |-> strip_line_ending(parts[i])]

(* ------------------------------ Parser --------------------------------- *)

ParserDefault ==
    [statements |-> <<>>, in_string |-> FALSE, in_delimited_identifier |-> FALSE]

ToggleStringOnAnyQuote(p, c) ==
    IF c \in {SQ, DQ} /\ ~p.in_delimited_identifier
    THEN [p EXCEPT !.in_string = ~p.in_string]
    ELSE p

ToggleStringUnguarded(p, c) ==
    IF c = SQ
    THEN [p EXCEPT !.in_string = ~p.in_string]
    ELSE p

ToggleString(p, c) ==
    IF c = SQ /\ ~p.in_delimited_identifier
    THEN [p EXCEPT !.in_string = ~p.in_string]
    ELSE p

ToggleIdentifierUnguarded(p, c) ==
    IF c = DQ
    THEN [p EXCEPT !.in_delimited_identifier = ~p.in_delimited_identifier]
    ELSE p

ToggleIdentifierOnAnyQuote(p, c) ==
    IF c \in {SQ, DQ} /\ ~p.in_string
    THEN [p EXCEPT !.in_delimited_identifier = ~p.in_delimited_identifier]
    ELSE p

ToggleIdentifier(p, c) ==
    IF c = DQ /\ ~p.in_string
    THEN [p EXCEPT !.in_delimited_identifier = ~p.in_delimited_identifier]
    ELSE p

EndsStatementIgnoringIdentifier(p, c) ==
    c = SEMI /\ ~p.in_string

EndsStatementIgnoringString(p, c) ==
    c = SEMI /\ ~p.in_delimited_identifier

EndsStatement(p, c) ==
    c = SEMI /\ ~p.in_string /\ ~p.in_delimited_identifier

EnsureFragmentNever(p) == p

(* lines 104-106: the first fragment is created when it is needed *)
EnsureFragment(p) ==
    IF Len(p.statements) = 0
    THEN [p EXCEPT !.statements = <<  <<>>  >>]
    ELSE p

(* line 109: last_mut() is None when there is no fragment *)
LastMutIsNone(p) == Len(p.statements) = 0

PushCharSkippingQuotes(p, c) ==
    LET q == EnsureFragment(p)
    IN  IF c \in {SQ, DQ} THEN p
        ELSE [q EXCEPT !.statements[Len(q.statements)] = Append(@, c)]

PushChar(p, c) ==
    LET q == EnsureFragment(p)
    IN  [q EXCEPT !.statements[Len(q.statements)] = Append(@, c)]

AcceptKeepingSemicolon(p, c) ==
    LET p1 == ToggleString(p, c)
        p2 == ToggleIdentifier(p1, c)
    IN  IF EndsStatement(p2, c)
        THEN [PushChar(p2, c) EXCEPT !.statements = Append(@, <<>>)]
        ELSE PushChar(p2, c)

AcceptReusingEmptyFragment(p, c) ==
    LET p1 == ToggleString(p, c)
        p2 == ToggleIdentifier(p1, c)
    IN  IF EndsStatement(p2, c)
        THEN IF Len(p2.statements) > 0
                   /\ p2.statements[Len(p2.statements)] = <<>>
             THEN p2
             ELSE [p2 EXCEPT !.statements = Append(@, <<>>)]
        ELSE PushChar(p2, c)

Accept(p, c) ==
    LET p1 == ToggleString(p, c)
        p2 == ToggleIdentifier(p1, c)
    IN  IF EndsStatement(p2, c)
        THEN [p2 EXCEPT !.statements = Append(@, <<>>)]
        ELSE PushChar(p2, c)

(* the unwrap of line 109 panics: accept reaches it without a fragment *)
UnwrapFails(p, c) ==
    LET p1 == ToggleString(p, c)
        p2 == ToggleIdentifier(p1, c)
    IN  ~EndsStatement(p2, c) /\ LastMutIsNone(EnsureFragment(p2))

(* --------------------- StatementGroup::try_from ------------------------ *)

IsCommentLineUntrimmed(l) == starts_with(l, <<"-", "-">>)

IsCommentLine(l) == starts_with(trim(l), <<"-", "-">>)

RECURSIVE FoldLines(_, _)
FoldLines(ls, a) ==
    IF ls = <<>> THEN a
    ELSE FoldLines(Tail(ls),
                   IF IsCommentLine(Head(ls)) THEN a ELSE a \o Head(ls) \o <<NL>>)

StripComments(in) == FoldLines(lines(in), <<>>)

TrimWithoutFilter(frags) == [i \in 1..Len(frags) |-> trim(frags[i])]

RECURSIVE TrimAndFilter(_)
TrimAndFilter(frags) ==
    IF frags = <<>> THEN <<>>
    ELSE LET t == trim(Head(frags))
         IN  (IF t = <<>> THEN <<>> ELSE <<t>>) \o TrimAndFilter(Tail(frags))

Commands ==
    << <<"b","e","g","i","n">>,
       <<"s","a","v","e","p","o","i","n","t">>,
       <<"r","o","l","l","b","a","c","k">>,
       <<"c","o","m","m","i","t">> >>

TakeLimit == 10

LoweredKeepingCase(s) == take(s, TakeLimit)

Lowered(s) == to_lowercase(take(s, TakeLimit))

MatchedCommandsAnywhere(s) ==
    {i \in 1..Len(Commands) :
        \E j \in 1..Len(Lowered(s)) :
           starts_with(SubSeq(Lowered(s), j, Len(Lowered(s))), Commands[i])}

MatchedCommandsWholeWord(s) ==
    {i \in 1..Len(Commands) :
        /\ starts_with(Lowered(s), Commands[i])
        /\ \/ Len(s) = Len(Commands[i])
           \/ s[Len(Commands[i]) + 1] \in WhiteSpace}

MatchedCommands(s) ==
    {i \in 1..Len(Commands) : starts_with(Lowered(s), Commands[i])}

FirstCommand(s) ==
    CHOOSE i \in MatchedCommands(s) : \A j \in MatchedCommands(s) : i <= j

ErrSuffix ==
    <<" ","c","o","m","m","a","n","d"," ","i","s"," ","n","o","t"," ",
      "s","u","p","p","o","r","t","e","d"," ","i","n"," ","a"," ",
      "r","e","v","i","s","i","o","n">>

ErrorFor(command) == [tag |-> "Err", msg |-> to_uppercase(command) \o ErrSuffix]

OkOf(sts) == [tag |-> "Ok", statements |-> sts]

NoResult == [tag |-> "None"]

(* ----------------------------- inputs ---------------------------------- *)

Chars == {SEMI, SQ, DQ, " ", NL, "-", "a"}

Pieces ==
    { <<SEMI>>, <<SQ>>, <<NL>>, <<CR>>, <<"-", "-">>, <<"x">>,
      <<"b","e","G","I","N">>,
      <<"S","A","V","E","P","O","I","N","T">>,
      <<"r","o","l","l","b","a","c","k">>,
      <<"C","o","m","m","i","t">> }

RECURSIVE CharSeqs(_)
CharSeqs(n) ==
    IF n = 0 THEN {<<>>}
    ELSE LET prev == CharSeqs(n - 1)
         IN  prev \cup {Append(s, c) : s \in prev, c \in Chars}

RECURSIVE PieceSeqs(_)
PieceSeqs(n) ==
    IF n = 0 THEN {<<>>}
    ELSE LET prev == PieceSeqs(n - 1)
         IN  prev \cup {s \o p : s \in prev, p \in Pieces}

Inputs == CharSeqs(MaxLen) \cup PieceSeqs(MaxPieces)

ReuseInputs == CharSeqs(MaxReuseLen) \cup Pieces

(* ----------------------------- actions --------------------------------- *)

Locals ==
    /\ without_comments = <<>>
    /\ pos = 1
    /\ parser = ParserDefault
    /\ statements = <<>>
    /\ k = 1
    /\ result = NoResult
    /\ pc = "start"
    /\ previous = <<>>

Init == input \in Inputs /\ Locals

InitReuse == input \in ReuseInputs /\ Locals

BeginWithOldParser ==
    /\ pc = "start"
    /\ without_comments' = StripComments(input)
    /\ pos' = 1
    /\ pc' = "scan"
    /\ UNCHANGED <<input, parser, statements, k, result, previous>>

(* lines 27-32: a new Parser, and the text without its comment lines *)
Begin ==
    /\ pc = "start"
    /\ parser' = ParserDefault
    /\ without_comments' = StripComments(input)
    /\ pos' = 1
    /\ pc' = "scan"
    /\ UNCHANGED <<input, statements, k, result, previous>>

(* lines 34-36: one iteration of the loop over without_comments.chars() *)
AcceptChar ==
    /\ pc = "scan"
    /\ pos <= Len(without_comments)
    /\ IF UnwrapFails(parser, without_comments[pos])
       THEN pc' = "panicked" /\ UNCHANGED <<parser, pos>>
       ELSE /\ parser' = Accept(parser, without_comments[pos])
            /\ pos' = pos + 1
            /\ pc' = pc
    /\ UNCHANGED <<input, without_comments, statements, k, result, previous>>

(* lines 40-43: trim every fragment and drop the empty ones *)
Collect ==
    /\ pc = "scan"
    /\ pos > Len(without_comments)
    /\ statements' = TrimAndFilter(parser.statements)
    /\ k' = 1
    /\ pc' = "check"
    /\ UNCHANGED <<input, without_comments, pos, parser, result, previous>>

CheckRejectCommandMajor ==
    /\ pc = "check"
    /\ k <= Len(statements)
    /\ MatchedCommands(statements[k]) # {}
    /\ result' = ErrorFor(Commands[
            CHOOSE i \in 1..Len(Commands) :
               /\ \E j \in k..Len(statements) : i \in MatchedCommands(statements[j])
               /\ \A h \in 1..(i - 1) :
                     \A j \in k..Len(statements) : h \notin MatchedCommands(statements[j])])
    /\ pc' = "done"
    /\ UNCHANGED <<input, without_comments, pos, parser, statements, k, previous>>

(* lines 49-63: one iteration of the loop over the statements *)
CheckReject ==
    /\ pc = "check"
    /\ k <= Len(statements)
    /\ MatchedCommands(statements[k]) # {}
    /\ result' = ErrorFor(Commands[FirstCommand(statements[k])])
    /\ pc' = "done"
    /\ UNCHANGED <<input, without_comments, pos, parser, statements, k, previous>>

CheckPass ==
    /\ pc = "check"
    /\ k <= Len(statements)
    /\ MatchedCommands(statements[k]) = {}
    /\ k' = k + 1
    /\ UNCHANGED <<input, without_comments, pos, parser, statements, result, pc, previous>>

(* line 65 *)
ReturnOk ==
    /\ pc = "check"
    /\ k > Len(statements)
    /\ result' = OkOf(statements)
    /\ pc' = "done"
    /\ UNCHANGED <<input, without_comments, pos, parser, statements, k, previous>>

(* the caller, having parsed `input`, invokes try_from on another input *)
Call ==
    /\ pc = "done"
    /\ input' \in ReuseInputs
    /\ previous' = <<input>>
    /\ result' = NoResult
    /\ pc' = "start"
    /\ UNCHANGED <<without_comments, pos, parser, statements, k>>

Next ==
    \/ Begin
    \/ AcceptChar
    \/ Collect
    \/ CheckReject
    \/ CheckPass
    \/ ReturnOk

NextReuse ==
    \/ Next
    \/ Call

Spec == Init /\ [][Next]_vars

SpecReuse == InitReuse /\ [][NextReuse]_vars

(* ------------------------ try_from as a function ----------------------- *)

RECURSIVE Scan(_, _)
Scan(p, text) ==
    IF text = <<>> THEN p ELSE Scan(Accept(p, Head(text)), Tail(text))

RECURSIVE CheckFrom(_, _)
CheckFrom(sts, i) ==
    IF i > Len(sts) THEN OkOf(sts)
    ELSE IF MatchedCommands(sts[i]) # {}
         THEN ErrorFor(Commands[FirstCommand(sts[i])])
         ELSE CheckFrom(sts, i + 1)

TryFrom(in) ==
    CheckFrom(TrimAndFilter(Scan(ParserDefault, StripComments(in)).statements), 1)

(* ------------------- vocabulary of the properties ---------------------- *)

Min(S) == CHOOSE x \in S : \A y \in S : x <= y

Max(S) == CHOOSE x \in S : \A y \in S : x >= y

(* a text without its leading and trailing whitespace *)
Trimmed(s) ==
    LET ix == {i \in 1..Len(s) : s[i] \notin WhiteSpace}
    IN  IF ix = {} THEN <<>> ELSE SubSeq(s, Min(ix), Max(ix))

(* the candidate statements of a fragment sequence *)
Candidates(frags) ==
    LET IsNonEmpty(t) == t # <<>>
    IN  SelectSeq([i \in 1..Len(frags) |-> Trimmed(frags[i])], IsNonEmpty)

Keywords == 1..4

KeywordLower(n) ==
    CASE n = 1 -> <<"b","e","g","i","n">>
      [] n = 2 -> <<"s","a","v","e","p","o","i","n","t">>
      [] n = 3 -> <<"r","o","l","l","b","a","c","k">>
      [] n = 4 -> <<"c","o","m","m","i","t">>

KeywordUpper(n) ==
    CASE n = 1 -> <<"B","E","G","I","N">>
      [] n = 2 -> <<"S","A","V","E","P","O","I","N","T">>
      [] n = 3 -> <<"R","O","L","L","B","A","C","K">>
      [] n = 4 -> <<"C","O","M","M","I","T">>

SameLetter(a, b) ==
    \/ a = b
    \/ \E i \in 1..Len(LowerLetters) :
          {a, b} = {LowerLetters[i], UpperLetters[i]}

(* s begins with keyword n, whatever the letter case *)
BeginsWith(s, n) ==
    /\ Len(s) >= Len(KeywordLower(n))
    /\ \A i \in 1..Len(KeywordLower(n)) : SameLetter(s[i], KeywordLower(n)[i])

Offending(sts) == {i \in 1..Len(sts) : \E n \in Keywords : BeginsWith(sts[i], n)}

MessageOf(n) == KeywordUpper(n) \o ErrSuffix

LastFragment(p) == p.statements[Len(p.statements)]

(* the character handed to the accept call that produced the current state *)
Accepted == without_comments[pos - 1]

HasAccepted == pc = "scan" /\ pos > 1

(* ------------------------------ claims --------------------------------- *)

(* C1: an accept call ends the current fragment and starts a new, empty   *)
(* one exactly when its character is ';' and both flags are false once    *)
(* the quote rules have been applied; a ';' met while a flag is true is   *)
(* appended to the current fragment and the number of fragments stays.    *)
C1_SplitExactlyAtTopLevelSemicolon ==
    [][AcceptChar =>
        LET c == without_comments[pos]
            quiet == ~parser'.in_string /\ ~parser'.in_delimited_identifier
        IN  /\ (parser'.statements = Append(parser.statements, <<>>))
                  <=> (c = SEMI /\ quiet)
            /\ (c = SEMI /\ ~quiet) =>
                  /\ Len(parser.statements) >= 1
                  /\ parser'.statements =
                        [parser.statements EXCEPT
                            ![Len(parser.statements)] = Append(@, SEMI)]
    ]_vars

C1_Witness ==
    /\ HasAccepted
    /\ Accepted = SEMI
    /\ parser.in_string
    /\ Len(parser.statements) = 2
    /\ LastFragment(parser) = <<SQ, SEMI>>

(* C2: when some candidate statement begins with a reserved keyword in    *)
(* any letter case, try_from returns Err and the message is the upper-    *)
(* case keyword of an offending candidate followed by                     *)
(* " command is not supported in a revision".                             *)
C2_KeywordRejected ==
    (pc = "done" /\ Offending(Candidates(parser.statements)) # {}) =>
        /\ result.tag = "Err"
        /\ \E i \in Offending(Candidates(parser.statements)) :
              \E n \in Keywords :
                 /\ BeginsWith(Candidates(parser.statements)[i], n)
                 /\ result.msg = MessageOf(n)

C2_Witness ==
    /\ pc = "done"
    /\ result.tag = "Err"
    /\ result.msg = MessageOf(2)
    /\ Len(statements) = 2
    /\ Offending(statements) = {2}
    /\ statements[2] = <<"S","A","V","E","P","O","I","N","T">>

(* C3: the error names the keyword of the first offending candidate in    *)
(* source order, and the scan of the candidates stops there.              *)
C3_FirstOffenderReported ==
    (pc = "done" /\ Offending(statements) # {}) =>
        LET first == Min(Offending(statements))
        IN  /\ result.tag = "Err"
            /\ \E n \in Keywords :
                  /\ BeginsWith(statements[first], n)
                  /\ result.msg = MessageOf(n)
            /\ k = first

C3_Witness ==
    /\ pc = "done"
    /\ Cardinality(Offending(statements)) >= 2
    /\ BeginsWith(statements[1], 3)
    /\ BeginsWith(statements[2], 1)
    /\ result.tag = "Err"
    /\ result.msg = MessageOf(3)

(* C4: try_from returns Err only when some candidate begins with a        *)
(* reserved keyword; otherwise, unbalanced quotes included, it returns    *)
(* Ok with all the candidate statements in order.                         *)
C4_ErrOnlyForKeyword ==
    pc = "done" =>
        /\ result.tag \in {"Ok", "Err"}
        /\ result.tag = "Err" => Offending(Candidates(parser.statements)) # {}
        /\ Offending(Candidates(parser.statements)) = {} =>
              result = OkOf(Candidates(parser.statements))

C4_Witness ==
    /\ pc = "done"
    /\ result.tag = "Ok"
    /\ parser.in_string
    /\ Len(result.statements) = 2

(* C5: an input made only of whitespace and semicolons, the empty input   *)
(* included, gives Ok with no statement.                                  *)
C5_BlankInputGivesNoStatement ==
    (pc = "done" /\ \A i \in 1..Len(input) : input[i] \in WhiteSpace \cup {SEMI})
        => result = OkOf(<<>>)

C5_Witness ==
    /\ pc = "done"
    /\ Len(input) >= 3
    /\ \A i \in 1..Len(input) : input[i] \in WhiteSpace \cup {SEMI}
    /\ \E i \in 1..Len(input) : input[i] = SEMI
    /\ \E i \in 1..Len(input) : input[i] = " "
    /\ result = OkOf(<<>>)

(* the number of ';' of a text that lie outside both quoting contexts *)
RECURSIVE TopLevelSemis(_, _)
TopLevelSemis(text, mode) ==
    IF text = <<>> THEN 0
    ELSE LET c == Head(text)
             m == CASE mode = "unquoted" ->
                         (IF c = SQ THEN "string"
                          ELSE IF c = DQ THEN "identifier" ELSE "unquoted")
                    [] mode = "string" ->
                         (IF c = SQ THEN "unquoted" ELSE "string")
                    [] mode = "identifier" ->
                         (IF c = DQ THEN "unquoted" ELSE "identifier")
         IN  (IF c = SEMI /\ m = "unquoted" THEN 1 ELSE 0)
                + TopLevelSemis(Tail(text), m)

(* the lines of a text, by position: a line starts at 1 and after every   *)
(* "\n", and runs up to and including the next "\n"                       *)
LineStarts(t) == {i \in 1..Len(t) : i = 1 \/ t[i - 1] = NL}

LineEnd(t, i) ==
    IF \E j \in i..Len(t) : t[j] = NL
    THEN Min({j \in i..Len(t) : t[j] = NL})
    ELSE Len(t)

LineStartOf(t, j) == Max({i \in LineStarts(t) : i <= j})

IsCommentAt(t, i) ==
    LET body == Trimmed(SubSeq(t, i, LineEnd(t, i)))
    IN  Len(body) >= 2 /\ body[1] = "-" /\ body[2] = "-"

CommentLines(t) == {i \in LineStarts(t) : IsCommentAt(t, i)}

(* the text with its comment lines deleted, line endings included *)
RECURSIVE DeleteFrom(_, _)
DeleteFrom(t, j) ==
    IF j > Len(t) THEN <<>>
    ELSE (IF IsCommentAt(t, LineStartOf(t, j)) THEN <<>> ELSE <<t[j]>>)
            \o DeleteFrom(t, j + 1)

WithoutCommentLines(t) == DeleteFrom(t, 1)

HasCRLF(t) == \E i \in 1..(Len(t) - 1) : t[i] = CR /\ t[i + 1] = NL

(* C6 as stated: an input without top-level semicolon gives exactly one   *)
(* statement, the input without its surrounding whitespace.               *)
C6_AsStated ==
    (pc = "done" /\ TopLevelSemis(input, "unquoted") = 0)
        => result = OkOf(<<Trimmed(input)>>)

(* C6 amended: an input that has a non-whitespace character, no top-level *)
(* semicolon, no comment line and no "\r\n", and does not begin with a    *)
(* reserved keyword once trimmed, gives exactly one statement, the input  *)
(* without its surrounding whitespace, however its quotes are nested.     *)
C6_SingleStatementRoundTrip ==
    ( /\ pc = "done"
      /\ TopLevelSemis(input, "unquoted") = 0
      /\ Trimmed(input) # <<>>
      /\ CommentLines(input) = {}
      /\ ~HasCRLF(input)
      /\ \A n \in Keywords : ~BeginsWith(Trimmed(input), n) )
        => result = OkOf(<<Trimmed(input)>>)

C6_Witness ==
    /\ pc = "done"
    /\ input = <<" ", SQ, DQ, SEMI, SQ>>
    /\ result = OkOf(<< <<SQ, DQ, SEMI, SQ>> >>)

(* C7: the comment lines are removed before the scan: no line of the      *)
(* text handed to the scanner is a comment line, and that text and the    *)
(* result are those of the input with its comment lines deleted.          *)
C7_CommentLinesRemoved ==
    /\ (pc = "scan" /\ pos = 1) =>
          /\ CommentLines(without_comments) = {}
          /\ without_comments = StripComments(WithoutCommentLines(input))
    /\ pc = "done" => result = TryFrom(WithoutCommentLines(input))

C7_Witness ==
    /\ pc = "done"
    /\ \E i \in CommentLines(input) :
          \E j \in i..LineEnd(input, i) : input[j] = SEMI
    /\ WithoutCommentLines(input) = <<"a">>
    /\ result = OkOf(<< <<"a">> >>)

(* C8: on success the statements are the fragments of the scanner, each   *)
(* trimmed, without those that are empty after trimming, in order; every  *)
(* statement is non-empty and neither begins nor ends with whitespace.    *)
C8_StatementsAreTrimmedFragments ==
    (pc = "done" /\ result.tag = "Ok") =>
        /\ result.statements = Candidates(parser.statements)
        /\ \A i \in 1..Len(result.statements) :
              LET st == result.statements[i]
              IN  /\ st # <<>>
                  /\ st[1] \notin WhiteSpace
                  /\ st[Len(st)] \notin WhiteSpace

C8_Witness ==
    /\ pc = "done"
    /\ result.tag = "Ok"
    /\ Len(result.statements) = 2
    /\ Len(parser.statements) = 3
    /\ parser.statements[1] = <<" ", "a">>
    /\ parser.statements[2] = <<>>
    /\ parser.statements[3] = <<"a", NL>>

(* C9: in_string and in_delimited_identifier are never both true.         *)
C9_NeverBothFlags ==
    ~(parser.in_string /\ parser.in_delimited_identifier)

C9_Witness ==
    /\ HasAccepted
    /\ Accepted = DQ
    /\ parser.in_string
    /\ ~parser.in_delimited_identifier

(* C10: every invocation scans with a new Parser (both flags false, no    *)
(* fragment) and its result is a function of its own input, whatever the  *)
(* input of the invocation before it.                                     *)
C10_ResultDependsOnInputOnly ==
    /\ (pc = "scan" /\ pos = 1) =>
          parser = [statements |-> <<>>, in_string |-> FALSE,
                    in_delimited_identifier |-> FALSE]
    /\ pc = "done" => result = TryFrom(input)

C10_Witness ==
    /\ pc = "done"
    /\ previous = << <<SQ>> >>
    /\ input = <<"a", SEMI>>
    /\ result = OkOf(<< <<"a">> >>)

(* C11: a quote character of the other kind changes neither flag; a       *)
(* quoting mode is left only at the quote character that entered it, and  *)
(* then both flags are false, so that a following ';' splits.             *)
C11_OtherQuoteIsOrdinaryText ==
    [][AcceptChar =>
        LET c == without_comments[pos]
            SameFlags ==
                /\ parser'.in_string = parser.in_string
                /\ parser'.in_delimited_identifier = parser.in_delimited_identifier
        IN  /\ (parser.in_string /\ c = DQ) => SameFlags
            /\ (parser.in_delimited_identifier /\ c = SQ) => SameFlags
            /\ (parser.in_string /\ ~parser'.in_string) =>
                  c = SQ /\ ~parser'.in_delimited_identifier
            /\ (parser.in_delimited_identifier /\ ~parser'.in_delimited_identifier) =>
                  c = DQ /\ ~parser'.in_string
    ]_vars

C11_Witness ==
    /\ HasAccepted
    /\ Accepted = SEMI
    /\ parser.statements = << <<SQ, DQ, SQ>>, <<>> >>

(* the accepted characters without the ';' met outside both quoting modes *)
RECURSIVE WithoutTopLevelSemis(_, _)
WithoutTopLevelSemis(text, mode) ==
    IF text = <<>> THEN <<>>
    ELSE LET c == Head(text)
             m == CASE mode = "unquoted" ->
                         (IF c = SQ THEN "string"
                          ELSE IF c = DQ THEN "identifier" ELSE "unquoted")
                    [] mode = "string" ->
                         (IF c = SQ THEN "unquoted" ELSE "string")
                    [] mode = "identifier" ->
                         (IF c = DQ THEN "unquoted" ELSE "identifier")
         IN  (IF c = SEMI /\ m = "unquoted" THEN <<>> ELSE <<c>>)
                \o WithoutTopLevelSemis(Tail(text), m)

RECURSIVE Concat(_)
Concat(frags) ==
    IF frags = <<>> THEN <<>> ELSE Head(frags) \o Concat(Tail(frags))

(* C12: the fragments, concatenated in order, are the accepted characters *)
(* with exactly the top-level semicolons deleted.                         *)
C12_FragmentsKeepEveryOtherCharacter ==
    pc = "scan" =>
        Concat(parser.statements) =
            WithoutTopLevelSemis(SubSeq(without_comments, 1, pos - 1), "unquoted")

C12_Witness ==
    /\ HasAccepted
    /\ parser.statements = << <<SQ, SEMI, SQ>>, <<DQ>> >>

(* C13: accept of a ';' while both flags are false appends one empty      *)
(* fragment and changes nothing else; no accept changes a fragment other  *)
(* than the last or removes a fragment.                                   *)
C13_SplitChangesNothingElse ==
    [][AcceptChar =>
        LET c == without_comments[pos]
        IN  /\ (c = SEMI /\ ~parser.in_string /\ ~parser.in_delimited_identifier)
                  => parser' = [parser EXCEPT !.statements = Append(@, <<>>)]
            /\ Len(parser'.statements) >= Len(parser.statements)
            /\ \A i \in 1..(Len(parser.statements) - 1) :
                  parser'.statements[i] = parser.statements[i]
    ]_vars

C13_Witness ==
    /\ HasAccepted
    /\ Accepted = SEMI
    /\ parser.statements = << <<"a">>, <<>>, <<>> >>

(* C14: after every accept call there is a fragment, and the unwrap of    *)
(* statements.last_mut() never fails.                                     *)
C14_UnwrapNeverFails ==
    /\ pc # "panicked"
    /\ HasAccepted => Len(parser.statements) >= 1

C14_Witness ==
    /\ HasAccepted
    /\ pos = 2
    /\ Accepted = "a"
    /\ parser.statements = << <<"a">> >>

(* C15: an accept call changes at most one of the two flags, and none     *)
(* when its character is neither "'" nor '"'.                             *)
C15_AtMostOneFlagChanges ==
    [][AcceptChar =>
        LET c == without_comments[pos]
            s_changed == parser'.in_string # parser.in_string
            d_changed == parser'.in_delimited_identifier
                            # parser.in_delimited_identifier
        IN  /\ ~(s_changed /\ d_changed)
            /\ c \notin {SQ, DQ} => (~s_changed /\ ~d_changed)
    ]_vars

C15_Witness ==
    /\ HasAccepted
    /\ Accepted = SQ
    /\ ~parser.in_string
    /\ ~parser.in_delimited_identifier
    /\ parser.statements = << <<SQ, "a", SQ>> >>

(* C16: a candidate is rejected exactly when its whole text begins, in    *)
(* any letter case, with a reserved keyword, whatever follows the keyword; *)
(* looking at the first 10 characters only changes neither the decision   *)
(* nor the keyword reported.                                              *)
C16_PurePrefixMatch ==
    /\ (pc = "check" /\ k <= Len(statements)) =>
          MatchedCommands(statements[k])
             = {n \in Keywords : BeginsWith(statements[k], n)}
    /\ pc = "done" =>
          /\ result.tag = "Err" <=> Offending(statements) # {}
          /\ result.tag = "Err" =>
                \E n \in Keywords :
                   /\ BeginsWith(statements[k], n)
                   /\ result.msg = MessageOf(n)

C16_Witness ==
    /\ pc = "done"
    /\ statements = << <<"S","A","V","E","P","O","I","N","T","x","x">> >>
    /\ result.tag = "Err"
    /\ result.msg = MessageOf(2)

(* no character from the current one on is ch *)
NoLater(ch) == \A j \in pos..Len(without_comments) : without_comments[j] # ch

(* a scan that ended with a flag set: the trimmed last fragment is the    *)
(* last statement, and the only error is that of a reserved keyword       *)
EndsInsideQuote ==
    ( /\ pc \in {"check", "done"}
      /\ parser.in_string \/ parser.in_delimited_identifier )
    => /\ statements # <<>>
       /\ statements[Len(statements)] = Trimmed(LastFragment(parser))
       /\ pc = "done" =>
             /\ result.tag \in {"Ok", "Err"}
             /\ result.tag = "Ok" => result.statements = statements
             /\ result.tag = "Err" => Offending(statements) # {}

(* C17: while a quoting mode is on and its quote character does not occur *)
(* in the rest of the text, every accept call leaves the flags and the    *)
(* number of fragments as they are and appends its character, a ';'       *)
(* included, to the last fragment; a scan that ends with a flag set gives *)
(* the trimmed last fragment as the last statement, and the only error    *)
(* is that of a reserved keyword.                                         *)
C17_UnterminatedQuoteRunsToTheEnd ==
    [][ /\ AcceptChar =>
            ( ( \/ parser.in_string /\ NoLater(SQ)
                \/ parser.in_delimited_identifier /\ NoLater(DQ) )
              => /\ pc' = "scan"
                 /\ parser'.in_string = parser.in_string
                 /\ parser'.in_delimited_identifier = parser.in_delimited_identifier
                 /\ Len(parser.statements) >= 1
                 /\ parser'.statements =
                       [parser.statements EXCEPT
                           ![Len(parser.statements)] =
                               Append(@, without_comments[pos])] )
        /\ EndsInsideQuote'
    ]_vars

C17_Witness ==
    /\ pc = "done"
    /\ parser.in_string
    /\ parser.statements = << <<"a">>, <<SQ, SEMI, "a", NL>> >>
    /\ result = OkOf(<< <<"a">>, <<SQ, SEMI, "a">> >>)

(* C18: while there is no fragment, or the last fragment is empty or has  *)
(* only whitespace, both flags are false: every fragment, and so every    *)
(* candidate statement, starts in the unquoted mode.                      *)
C18_FragmentsStartUnquoted ==
    ( \/ parser.statements = <<>>
      \/ LastFragment(parser) = <<>>
      \/ Trimmed(LastFragment(parser)) = <<>> )
        => (~parser.in_string /\ ~parser.in_delimited_identifier)

C18_Witness ==
    /\ HasAccepted
    /\ Accepted = " "
    /\ parser.statements = << <<SQ, SEMI, SQ>>, <<" ">> >>

====
